---- MODULE Spec2Model ----
(***************************************************************************)
(* Model of src/go.py, the Alfred script filter that searches go links:    *)
(* cache-key derivation (asciify, _hash, cache_key), the mapping of the    *)
(* API's records to Answers (handle_answer, get_answers) and the run of    *)
(* do_search against the workflow's cache store and item list.             *)
(*                                                                         *)
(* Text the code works on character by character (the query) is a sequence *)
(* of Unicode code points; text it only copies or concatenates (the API's  *)
(* shortname and url) is a TLA+ string.                                    *)
(***************************************************************************)
EXTENDS Integers, Sequences, FiniteSets, TLC

\* ------------------------------------------------------------------ bounds

\* Longest query given to cache_key in SpecKey.
MaxLen == 3

\* Longest `sites` list given to get_answers in SpecAnswers.
MaxSites == 4

\* Last instant of the clock in Spec.
MaxTime == 3

\* Largest configured cache_max_age in Spec (the smallest is 0).
MaxAge == 2

\* -------------------------------------------------------------- characters

\* The code points queries are drawn from:
\* a, A, e, e-acute, sharp-s, hyphen, space, full stop.
Alphabet == {97, 65, 101, 233, 223, 45, 32, 46}

\* unicodedata.normalize('NFD', c) of one code point, for the code points of
\* Alphabet: e-acute decomposes to e + combining acute (U+0301); sharp-s and
\* the ASCII characters have no decomposition.
NFDChar(c) == IF c = 233 THEN <<101, 769>> ELSE <<c>>

RECURSIVE NFD(_)
NFD(s) == IF s = <<>> THEN <<>> ELSE NFDChar(Head(s)) \o NFD(Tail(s))

IsAscii(c) == c < 128

\* u.encode('us-ascii', 'ignore'): the non-ASCII code points are dropped.
EncodeAsciiIgnore(u) == SelectSeq(u, IsAscii)

\* asciify(s): NFD, then drop what is not ASCII (unicodify is the identity on
\* text that is already Unicode or ASCII, which is all asciify gives it).
asciify(s) == EncodeAsciiIgnore(NFD(s))

\* unicode.lower() on ASCII text.
LowerChar(c) == IF c >= 65 /\ c <= 90 THEN c + 32 ELSE c

lower(s) == [i \in 1..Len(s) |-> LowerChar(s[i])]

\* s.encode('utf-8') of one code point (1, 2 or 3 bytes; the model has no
\* code point above U+FFFF).
Utf8Char(c) ==
    IF c < 128 THEN <<c>>
    ELSE IF c < 2048 THEN <<192 + (c \div 64), 128 + (c % 64)>>
    ELSE <<224 + (c \div 4096), 128 + ((c \div 64) % 64), 128 + (c % 64)>>

RECURSIVE Utf8(_)
Utf8(s) == IF s = <<>> THEN <<>> ELSE Utf8Char(Head(s)) \o Utf8(Tail(s))

\* One hexadecimal digit, as the code point of 0-9 or a-f.
HexDigit(d) == IF d < 10 THEN 48 + d ELSE 87 + d

RECURSIVE Hex(_, _)
\* n written with `width` hexadecimal digits.
Hex(n, width) ==
    IF width = 0 THEN <<>> ELSE Append(Hex(n \div 16, width - 1), HexDigit(n % 16))

RECURSIVE Lane(_, _, _)
\* One 24-bit lane of the digest: absorbs the bytes from left to right.
Lane(bytes, mult, acc) ==
    IF bytes = <<>> THEN acc
    ELSE Lane(Tail(bytes), mult, (acc * mult + Head(bytes) + 1) % 16777213)

\* hashlib.md5(bytes).hexdigest()[:12]. MD5 itself is not computed: the digest
\* is a function of the bytes alone, 12 hexadecimal digits long, and, like the
\* first 12 digits of MD5, without a collision among the queries of the model.
Md5Hex12(bytes) == Hex(Lane(bytes, 31, 0), 6) \o Hex(Lane(bytes, 37, 0), 6)

\* _hash(s): the digest of the UTF-8 encoding of s.
_hash(s) == Md5Hex12(Utf8(s))

\* The characters the pattern [^a-z0-9-_;\.] does not match:
\* a-z, 0-9, hyphen, underscore, semicolon, full stop.
KeyChars == (97..122) \cup (48..57) \cup {45, 95, 59, 46}

\* re.sub(r'[^a-z0-9-_;\.]', '-', key)
SubUnsafe(s) == [i \in 1..Len(s) |-> IF s[i] \in KeyChars THEN s[i] ELSE 45]

\* The key with its runs of hyphens left as they are.
SubDashesNone(s) == s

RECURSIVE SubDashes(_)
\* re.sub(r'-+', '-', key): every run of hyphens becomes one hyphen.
SubDashes(s) ==
    IF Len(s) < 2 THEN s
    ELSE IF s[1] = 45 /\ s[2] = 45 THEN SubDashes(Tail(s))
    ELSE <<s[1]>> \o SubDashes(Tail(s))

\* 'search/'
SearchPrefix == <<115, 101, 97, 114, 99, 104, 47>>

\* A cache key whose hash is taken of the normalized query.
cache_keyHashNormalized(query) ==
    LET key == lower(asciify(query))
        h   == _hash(key)
    IN  SearchPrefix \o SubDashes(SubUnsafe(key) \o <<45>> \o h)

\* cache_key(query), the value it returns.
cache_key(query) ==
    LET h   == _hash(query)
        key == lower(asciify(query))
    IN  SearchPrefix \o SubDashes(SubUnsafe(key) \o <<45>> \o h)

\* ------------------------------------------------------------- API records

\* The value of a field the caller did not give (Python's None).
None == "None"

\* Answer = namedtuple('Answer', 'shortname link clicks')
Answer(shortname, link, clicks) ==
    [shortname |-> shortname, link |-> link, clicks |-> clicks]

\* One record of the API's `sites` list: a dict, whose keys are `fields`.
Site(fields, shortname, url, clicks) ==
    [fields |-> fields, shortname |-> shortname, url |-> url, clicks |-> clicks]

AllFields == {"shortname", "url", "clicks"}

\* The text that is not ASCII among the text the API returns in the model
\* ("caf" followed by e-acute).
NonAsciiText == {"caf(U+00E9)"}

\* h.unescape(s): HTML entities are replaced by their characters. The only
\* text with an entity among the text the API returns in the model is a&amp;b.
unescape(s) == IF s = "a&amp;b" THEN "a&b" ELSE s

\* handle_answer(api_dict): raises KeyError when a key is missing.
handle_answer(api_dict) ==
    IF AllFields \subseteq api_dict.fields
    THEN [ok |-> TRUE,
          answer |-> Answer(unescape(api_dict.shortname), unescape(api_dict.url),
                            api_dict.clicks)]
    ELSE [ok |-> FALSE, answer |-> Answer("", "", 0)]

RECURSIVE MapAnswersSkipBad(_)
\* A best-effort mapping: a record that raises is left out.
MapAnswersSkipBad(records) ==
    IF records = <<>> THEN [ok |-> TRUE, answers |-> <<>>]
    ELSE LET a    == handle_answer(Head(records))
             rest == MapAnswersSkipBad(Tail(records))
         IN  IF a.ok
             THEN [ok |-> TRUE, answers |-> <<a.answer>> \o rest.answers]
             ELSE rest

RECURSIVE MapAnswers(_)
\* [handle_answer(d) for d in data['sites']]: the first record that raises
\* ends the comprehension, and the list built so far is dropped with it.
MapAnswers(records) ==
    IF records = <<>> THEN [ok |-> TRUE, answers |-> <<>>]
    ELSE LET a    == handle_answer(Head(records))
             rest == MapAnswers(Tail(records))
         IN  IF a.ok /\ rest.ok
             THEN [ok |-> TRUE, answers |-> <<a.answer>> \o rest.answers]
             ELSE [ok |-> FALSE, answers |-> <<>>]

\* A sort key that drops the `not`: the clicks themselves.
SortKeyByClicks(a) == a.clicks

\* The sort key `not a.clicks`, a bool: False (0) when clicks is non-zero,
\* True (1) when it is zero.
SortKey(a) == IF a.clicks = 0 THEN 1 ELSE 0

RECURSIVE Insert(_, _)
\* a placed behind every element of the sorted s whose key is not larger.
Insert(s, a) ==
    IF s = <<>> THEN <<a>>
    ELSE IF SortKey(Head(s)) <= SortKey(a) THEN <<Head(s)>> \o Insert(Tail(s), a)
    ELSE <<a>> \o s

RECURSIVE Sort(_)
\* answers.sort(key=..., reverse=False): ascending by key, and stable.
Sort(s) == IF s = <<>> THEN <<>> ELSE Insert(Sort(SubSeq(s, 1, Len(s) - 1)), s[Len(s)])

\* An HTTP response: its status, whether its body parses as JSON, and the
\* parsed payload (whether it is truthy, whether it has the key `sites`, and
\* the list under that key).
Response(status, valid, truthy, has_sites, sites) ==
    [status |-> status, valid |-> valid, truthy |-> truthy,
     has_sites |-> has_sites, sites |-> sites]

\* r.raise_for_status() in get_url: raises unless the status is a success.
raise_for_status(resp) == resp.status < 200 \/ resp.status >= 300

\* get_answers(query), given the response to its one HTTP GET: `ok` is FALSE
\* when get_url, .json(), data['sites'] or handle_answer raises. `return {}`
\* and an empty list are both the empty sequence.
get_answers(resp) ==
    IF raise_for_status(resp) \/ ~resp.valid THEN [ok |-> FALSE, answers |-> <<>>]
    ELSE IF ~resp.truthy THEN [ok |-> TRUE, answers |-> <<>>]
    ELSE IF ~resp.has_sites THEN [ok |-> FALSE, answers |-> <<>>]
    ELSE LET m == MapAnswers(resp.sites)
         IN  IF m.ok THEN [ok |-> TRUE, answers |-> Sort(m.answers)] ELSE m

\* ------------------------------------------------------------------ items

\* One item of the workflow's feedback, as wf.add_item builds it; the
\* arguments add_item is not given keep its default, None (valid: False).
Item(title, subtitle, arg, uid, autocomplete, valid, icon) ==
    [title |-> title, subtitle |-> subtitle, arg |-> arg, uid |-> uid,
     autocomplete |-> autocomplete, valid |-> valid, icon |-> icon]

\* ICON_UPDATE
ICON_UPDATE == "update-available.png"

\* ICON_WARNING of the workflow library.
ICON_WARNING == "AlertCautionIcon.icns"

\* The item of lines 181-184 (its subtitle starts with the character U+21A9).
UpdateItem ==
    Item("A newer version is available", "(U+21A9) to install update",
         None, None, "workflow:update", FALSE, ICON_UPDATE)

\* The item wf.warn_empty(u'No Answers Found', u'Try a different query') adds.
NoAnswersItem ==
    Item("No Answers Found", "Try a different query", None, None, None, FALSE,
         ICON_WARNING)

\* An item whose uid is the shortname instead of the link.
AnswerItemUidShortname(a) ==
    Item(a.shortname, "(" \o ToString(a.clicks) \o ") " \o a.link,
         "http://go/" \o a.shortname, a.shortname, None, TRUE, "icon.png")

\* The item of lines 196-201 for one Answer.
AnswerItem(a) ==
    Item(a.shortname, "(" \o ToString(a.clicks) \o ") " \o a.link,
         "http://go/" \o a.shortname, a.link, None, TRUE, "icon.png")

\* "...".format(...) at lines 197-198: the templates are byte strings and the
\* Answer's text is Unicode, so Python 2 encodes the text as ASCII and raises
\* UnicodeEncodeError when it cannot.
FormatRaises(a) == a.shortname \in NonAsciiText \/ a.link \in NonAsciiText

RECURSIVE AddAnswers(_, _)
\* The loop of lines 195-201 on the item list `its`: an item per Answer, up to
\* the first Answer whose formatting raises.
AddAnswers(its, as) ==
    IF as = <<>> THEN [ok |-> TRUE, items |-> its]
    ELSE IF FormatRaises(Head(as)) THEN [ok |-> FALSE, items |-> its]
    ELSE AddAnswers(Append(its, AnswerItem(Head(as))), Tail(as))

\* wf.warn_empty(title, subtitle) (workflow library): the warning is added
\* only when the workflow has no item at all; the call is not given the
\* answers, it sees the item list alone.
warn_empty(its) == IF Len(its) > 0 THEN its ELSE Append(its, NoAnswersItem)

\* ------------------------------------------------------------------ state

VARIABLES
    now,            \* time.time(), in whole seconds
    cache_max_age,  \* CACHE_MAX_AGE, as the environment configures it
    cache,          \* the workflow's cache store: cache key -> entry
    cacheDir,       \* whether the directory of the cache files exists
    pc,             \* where the process is
    run,            \* the run of do_search in progress, and what it has done
    answers,        \* do_search's `answers`
    items,          \* wf._items, the items added so far
    feedback,       \* the items wf.send_feedback() has written out
    prev,           \* what the run before this one did
    kq, kkey,       \* SpecKey: a query and the key cache_key returned for it
    kq2, kkey2,     \* SpecKey: a second query and its key
    sites, result   \* SpecAnswers: a `sites` list and what get_answers returned

vars == <<now, cache_max_age, cache, cacheDir, pc, run, answers, items, feedback,
          prev, kq, kkey, kq2, kkey2, sites, result>>

\* MAX_RESULTS, with `max_results` not set in the environment.
MAX_RESULTS == 50

\* Whitespace, as unicode.strip() sees it.
IsSpace(c) == c \in {9, 10, 11, 12, 13, 28, 29, 30, 31, 32, 133, 160}

RECURSIVE LStrip(_)
LStrip(s) == IF s # <<>> /\ IsSpace(Head(s)) THEN LStrip(Tail(s)) ELSE s

RECURSIVE RStrip(_)
RStrip(s) ==
    IF s # <<>> /\ IsSpace(s[Len(s)]) THEN RStrip(SubSeq(s, 1, Len(s) - 1)) ELSE s

\* The query as typed, not trimmed.
stripNothing(s) == s

\* args['<query>'].strip()
strip(s) == RStrip(LStrip(s))

\* The queries typed in Spec: "", " ", " a " and "a".
RawQueries == {<<>>, <<32>>, <<32, 97, 32>>, <<97>>}

\* The cache keys of those queries.
Keys == {cache_key(strip(q)) : q \in RawQueries}

\* A cache file that does not exist.
NoEntry == [exists |-> FALSE, data |-> <<>>, mtime |-> 0]

EmptyCache == [k \in Keys |-> NoEntry]

Bugtracker == Site(AllFields, "bugtracker", "http://x/1", 10)

Bugzilla == Site(AllFields, "bugzilla", "http://x/2", 2)

\* What the API answers in Spec.
Responses ==
    { Response(500, TRUE, TRUE, TRUE, <<Bugtracker, Bugzilla>>),  \* HTTP error
      Response(200, FALSE, FALSE, FALSE, <<>>),                   \* malformed JSON
      Response(200, TRUE, FALSE, FALSE, <<>>),                    \* {}
      Response(200, TRUE, TRUE, FALSE, <<>>),                     \* no `sites`
      Response(200, TRUE, TRUE, TRUE, <<>>),                      \* no site
      Response(200, TRUE, TRUE, TRUE, <<Bugtracker, Bugzilla>>),
      Response(200, TRUE, TRUE, TRUE,
               <<Site(AllFields, "a&amp;b", "http://x/3", 0),
                 Site(AllFields, "wiki", "http://x/4", 3)>>),
      Response(200, TRUE, TRUE, TRUE,                             \* no `clicks`
               <<Bugtracker, Site({"shortname", "url"}, "bugzilla", "http://x/2", 0)>>),
      Response(200, TRUE, TRUE, TRUE,
               <<Site(AllFields, "caf(U+00E9)", "http://x/5", 1)>>) }

NoResponse == Response(0, FALSE, FALSE, FALSE, <<>>)

NoParams == [short_name |-> <<>>, limit |-> 0]

\* No run in progress.
IdleRun ==
    [upd |-> FALSE, raw |-> <<>>, query |-> <<>>, key |-> <<>>, start |-> 0,
     had |-> FALSE,
     age |-> 0, apiCalls |-> 0, params |-> NoParams, resp |-> NoResponse,
     failedAt |-> "none", wrote |-> 0, cache0 |-> EmptyCache]

NoPrev ==
    [status |-> "none", key |-> <<>>, had |-> FALSE, age |-> 0, apiCalls |-> 0,
     wrote |-> 0, answers |-> <<>>, shown |-> <<>>]

\* --------------------------------------------------------- the cache store

\* The max_age do_search gives wf.cached_data, one second short.
MaxAgeArgShort == cache_max_age - 1

\* The max_age do_search gives wf.cached_data, one second long.
MaxAgeArgLong == cache_max_age + 1

\* max_age=CACHE_MAX_AGE at line 191.
MaxAgeArg == cache_max_age

\* wf.cached_data_age(name) (workflow library): 0 when there is no file.
cached_data_age(name) == IF cache[name].exists THEN now - cache[name].mtime ELSE 0

\* The test of wf.cached_data(name, data_func, max_age) (workflow library)
\* that the cached data is returned and data_func is not called: the file
\* exists and is younger than max_age, or max_age is 0 (no expiry).
CachedDataFresh(name, max_age) ==
    /\ cached_data_age(name) < max_age \/ max_age = 0
    /\ cache[name].exists

\* wf.cache_data(name, data) (workflow library): the file is written now.
\* (None would delete it; get_answers never returns None.)
cache_data(name, data) ==
    [cache EXCEPT ![name] = [exists |-> TRUE, data |-> data, mtime |-> now]]

\* -------------------------------------------------------------- do_search

\* The items of `its` that stand for an Answer.
AnswerItems(its) == SelectSeq(its, LAMBDA it : it.valid)

\* Lines 195-204 on the items `its` and the answers `as`, in the run r: an
\* item per Answer, the warning of warn_empty, send_feedback. A formatting
\* error leaves the items added so far unsent.
Show(its, as, r) ==
    LET a == AddAnswers(its, as)
    IN  IF a.ok
        THEN /\ items' = warn_empty(a.items)
             /\ feedback' = warn_empty(a.items)
             /\ pc' = "done"
             /\ run' = r
        ELSE /\ items' = a.items
             /\ feedback' = <<>>
             /\ pc' = "failed"
             /\ run' = [r EXCEPT !.failedAt = "render"]

\* do_search(args) with the query `raw`, wf.update_available being `upd`:
\* lines 180-191 and, when wf.cached_data returns the cached data, the rest
\* of the function; otherwise up to the HTTP GET of get_answers, which blocks.
do_search(raw, upd) ==
    /\ pc = "idle"
    /\ LET its   == IF upd THEN <<UpdateItem>> ELSE <<>>
           query == strip(raw)
           key   == cache_key(query)
           r     == [IdleRun EXCEPT !.upd = upd, !.raw = raw, !.query = query,
                                    !.key = key, !.start = now,
                                    !.had = cache[key].exists,
                                    !.age = cached_data_age(key), !.cache0 = cache]
       IN  /\ cacheDir' = TRUE
           /\ IF CachedDataFresh(key, MaxAgeArg)
              THEN /\ answers' = cache[key].data
                   /\ Show(its, cache[key].data, r)
              ELSE /\ answers' = <<>>
                   /\ items' = its
                   /\ feedback' = <<>>
                   /\ pc' = "fetch"
                   /\ run' = [r EXCEPT !.apiCalls = 1,
                                       !.params = [short_name |-> query,
                                                   limit |-> MAX_RESULTS]]
    /\ UNCHANGED <<now, cache_max_age, cache, prev, kq, kkey, kq2, kkey2, sites, result>>

\* The HTTP GET returns `resp` and do_search shows the answers of
\* get_answers without caching them.
api_returnsUncached(resp) ==
    /\ pc = "fetch"
    /\ LET got == get_answers(resp)
           r   == [run EXCEPT !.resp = resp]
       IN  IF got.ok
           THEN /\ cache' = cache
                /\ answers' = got.answers
                /\ Show(items, got.answers, [r EXCEPT !.wrote = now])
           ELSE /\ pc' = "failed"
                /\ run' = [r EXCEPT !.failedAt = "api"]
                /\ UNCHANGED <<cache, answers, items, feedback>>
    /\ UNCHANGED <<now, cache_max_age, cacheDir, prev, kq, kkey, kq2, kkey2, sites, result>>

\* The HTTP GET returns `resp`: the rest of get_answers, then of
\* wf.cached_data (the data is cached) and of do_search. An exception of
\* get_answers ends the run.
api_returns(resp) ==
    /\ pc = "fetch"
    /\ LET got == get_answers(resp)
           r   == [run EXCEPT !.resp = resp]
       IN  IF got.ok
           THEN /\ cache' = cache_data(run.key, got.answers)
                /\ answers' = got.answers
                /\ Show(items, got.answers, [r EXCEPT !.wrote = now])
           ELSE /\ pc' = "failed"
                /\ run' = [r EXCEPT !.failedAt = "api"]
                /\ UNCHANGED <<cache, answers, items, feedback>>
    /\ UNCHANGED <<now, cache_max_age, cacheDir, prev, kq, kkey, kq2, kkey2, sites, result>>

\* A second passes, between two processes or while the HTTP GET blocks (the
\* rest of a run takes no time).
Tick ==
    /\ pc \in {"idle", "fetch"}
    /\ now < MaxTime
    /\ now' = now + 1
    /\ UNCHANGED <<cache_max_age, cache, cacheDir, pc, run, answers, items, feedback,
                   prev, kq, kkey, kq2, kkey2, sites, result>>

\* The process ends and the script filter is started again: line 216.
NextProcess ==
    /\ pc \in {"done", "failed"}
    /\ prev' = [status |-> pc, key |-> run.key, had |-> run.had, age |-> run.age,
                apiCalls |-> run.apiCalls, wrote |-> run.wrote,
                answers |-> answers, shown |-> AnswerItems(feedback)]
    /\ pc' = "idle"
    /\ run' = IdleRun
    /\ answers' = <<>>
    /\ items' = <<>>
    /\ feedback' = <<>>
    /\ UNCHANGED <<now, cache_max_age, cache, cacheDir, kq, kkey, kq2, kkey2, sites, result>>

NoResult == [ok |-> TRUE, answers |-> <<>>]

Init ==
    /\ now = 0
    /\ cache_max_age \in 0..MaxAge
    /\ cache = EmptyCache
    /\ cacheDir = FALSE
    /\ pc = "idle"
    /\ run = IdleRun
    /\ answers = <<>>
    /\ items = <<>>
    /\ feedback = <<>>
    /\ prev = NoPrev
    /\ kq = <<>> /\ kkey = <<>> /\ kq2 = <<>> /\ kkey2 = <<>>
    /\ sites = <<>> /\ result = NoResult

Next ==
    \/ \E raw \in RawQueries, upd \in BOOLEAN : do_search(raw, upd)
    \/ \E resp \in Responses : api_returns(resp)
    \/ Tick
    \/ NextProcess

Spec == Init /\ [][Next]_vars

\* ---------------------------------------------------- cache_key on its own

\* The queries of at most n characters of Alphabet.
Strings(n) == UNION {[1..k -> Alphabet] : k \in 0..n}

\* The characters that differ from c in case or accent only.
Class(c) ==
    IF c \in {97, 65} THEN {97, 65}
    ELSE IF c \in {101, 233} THEN {101, 233}
    ELSE {c}

RECURSIVE Variants(_)
\* The queries that differ from q in case or accents only (q among them).
Variants(q) ==
    IF q = <<>> THEN {<<>>}
    ELSE {<<c>> \o t : c \in Class(Head(q)), t \in Variants(Tail(q))}

\* cache_key(kq): the key, and the directory of lines 122-124.
KeyFirst ==
    /\ pc = "key0"
    /\ kkey' = cache_key(kq)
    /\ cacheDir' = TRUE
    /\ pc' = "key1"
    /\ UNCHANGED <<now, cache_max_age, cache, run, answers, items, feedback, prev,
                   kq, kq2, kkey2, sites, result>>

\* cache_key of a query that differs from kq in case or accents only.
KeySecond ==
    /\ pc = "key1"
    /\ \E q \in Variants(kq) :
          /\ kq2' = q
          /\ kkey2' = cache_key(q)
    /\ pc' = "key2"
    /\ UNCHANGED <<now, cache_max_age, cache, cacheDir, run, answers, items, feedback,
                   prev, kq, kkey, sites, result>>

InitKey ==
    /\ now = 0
    /\ cache_max_age = 0
    /\ cache = EmptyCache
    /\ cacheDir = FALSE
    /\ pc = "key0"
    /\ run = IdleRun
    /\ answers = <<>>
    /\ items = <<>>
    /\ feedback = <<>>
    /\ prev = NoPrev
    /\ kq \in Strings(MaxLen) /\ kkey = <<>> /\ kq2 = <<>> /\ kkey2 = <<>>
    /\ sites = <<>> /\ result = NoResult

NextKey == KeyFirst \/ KeySecond

SpecKey == InitKey /\ [][NextKey]_vars

\* -------------------------------------------------- get_answers on its own

\* The records the `sites` lists of SpecAnswers are made of.
SitePool ==
    { Site(AllFields, "x", "http://x/x", 0),
      Site(AllFields, "y", "http://x/y", 0),
      Site(AllFields, "p", "http://x/p", 3),
      Site(AllFields, "q", "http://x/q", 5) }

SiteLists(n) == UNION {[1..k -> SitePool] : k \in 0..n}

\* get_answers(query) when the API answers with the list `sites`.
GetAnswers ==
    /\ pc = "ans0"
    /\ result' = get_answers(Response(200, TRUE, TRUE, TRUE, sites))
    /\ pc' = "ans1"
    /\ UNCHANGED <<now, cache_max_age, cache, cacheDir, run, answers, items, feedback,
                   prev, kq, kkey, kq2, kkey2, sites>>

InitAnswers ==
    /\ now = 0
    /\ cache_max_age = 0
    /\ cache = EmptyCache
    /\ cacheDir = FALSE
    /\ pc = "ans0"
    /\ run = IdleRun
    /\ answers = <<>>
    /\ items = <<>>
    /\ feedback = <<>>
    /\ prev = NoPrev
    /\ kq = <<>> /\ kkey = <<>> /\ kq2 = <<>> /\ kkey2 = <<>>
    /\ sites \in SiteLists(MaxSites) /\ result = NoResult

NextAnswers == GetAnswers

SpecAnswers == InitAnswers /\ [][NextAnswers]_vars

\* ----------------------------------------------------------------- claims

\* The Answers of the records ss, in the API's order.
Mapped(ss) ==
    [i \in 1..Len(ss) |->
        Answer(unescape(ss[i].shortname), unescape(ss[i].url), ss[i].clicks)]

Clicks(as) == [i \in 1..Len(as) |-> as[i].clicks]

HasClicks(a) == a.clicks # 0

NoClicks(a) == a.clicks = 0

\* The answers with clicks, then those without, each group in its own order.
ZeroClicksLast(as) == SelectSeq(as, HasClicks) \o SelectSeq(as, NoClicks)

\* C1, as claimed: the sequence get_answers returns is ordered by descending
\* clicks, and answers with equal clicks keep the order the API gave them.
C1_DescendingClicks ==
    pc = "ans1" =>
        /\ result.ok
        /\ \A i \in 1..(Len(result.answers) - 1) :
              result.answers[i].clicks >= result.answers[i + 1].clicks
        /\ \A c \in {0, 3, 5} :
              SelectSeq(result.answers, LAMBDA a : a.clicks = c)
                  = SelectSeq(Mapped(sites), LAMBDA a : a.clicks = c)

\* C1, amended: the sequence get_answers returns holds the answers with
\* non-zero clicks before the answers with zero clicks, and each of the two
\* groups in the order the API gave it (so answers with equal clicks keep
\* their order, and the non-zero answers are not ordered by clicks).
C1_ZeroClicksLast ==
    pc = "ans1" =>
        /\ result.ok
        /\ result.answers = ZeroClicksLast(Mapped(sites))

\* The API's clicks are 0, 5, 0, 3 and the answers come out 5, 3, 0, 0, the
\* two zeros in the API's order.
C1_Witness ==
    /\ pc = "ans1"
    /\ Clicks(Mapped(sites)) = <<0, 5, 0, 3>>
    /\ sites[1].shortname = "x" /\ sites[3].shortname = "y"
    /\ Clicks(result.answers) = <<5, 3, 0, 0>>
    /\ result.answers[3].shortname = "x" /\ result.answers[4].shortname = "y"

\* The run has started: do_search has been entered.
Started == pc \in {"fetch", "done", "failed"}

ItemsOf(as) == [i \in 1..Len(as) |-> AnswerItem(as[i])]

Expected(resp) == IF resp.truthy THEN ZeroClicksLast(Mapped(resp.sites)) ELSE <<>>

\* The entry of key k was not fresh when the run started: there was none, or
\* its age had reached max_age.
MissOrStale == ~run.had \/ run.age >= cache_max_age

\* What C4 says of a run that was a miss, and of the run after it.
C4_Body ==
    /\ run.apiCalls = 1
    /\ pc = "done" =>
          /\ answers = Expected(run.resp)
          /\ cache[run.key] = [exists |-> TRUE, data |-> answers, mtime |-> now]
          /\ run.wrote = now
          /\ \A k \in Keys \ {run.key} : cache[k] = run.cache0[k]
          /\ AnswerItems(feedback) = ItemsOf(answers)

\* The run before this one fetched and completed, this run has the same key
\* and started less than max_age after the write.
FollowsFetch ==
    /\ Started
    /\ prev.status = "done" /\ prev.apiCalls = 1
    /\ prev.key = run.key
    /\ run.start - prev.wrote < cache_max_age

C4_Following ==
    FollowsFetch =>
        /\ run.apiCalls = 0
        /\ pc = "done" => AnswerItems(feedback) = prev.shown

BadResponse(resp) ==
    \/ resp.status \notin 200..299
    \/ ~resp.valid
    \/ resp.truthy /\ ~resp.has_sites
    \/ /\ resp.truthy /\ resp.has_sites
       /\ \E i \in 1..Len(resp.sites) :
             {"shortname", "url", "clicks"} \ resp.sites[i].fields # {}

\* C6: when the API step of a run fails, the run is aborted: no cache entry
\* is written or changed, do_search sends no item, and nothing of the records
\* mapped so far is kept as answers or added as an item.
C6_ApiFailureAborts ==
    pc \in {"done", "failed"} /\ run.apiCalls = 1 /\ BadResponse(run.resp) =>
        /\ pc = "failed" /\ run.failedAt = "api"
        /\ cache = run.cache0
        /\ feedback = <<>>
        /\ answers = <<>>
        /\ AnswerItems(items) = <<>>

\* The second record of the response lacks `clicks`: the run is aborted with
\* the stale entry of its key untouched and the update item unsent.
C6_Witness ==
    /\ pc = "failed" /\ run.failedAt = "api"
    /\ Len(run.resp.sites) = 2 /\ run.resp.sites[1].fields = AllFields
    /\ run.had /\ cache[run.key].exists /\ cache[run.key].data # <<>>
    /\ run.upd /\ items = <<UpdateItem>> /\ feedback = <<>>

\* C7: a run that completes with a non-empty Answer sequence sends exactly one
\* item per Answer, in the sequence's order, with title = shortname,
\* arg = "http://go/<shortname>" and uid = link (behind the update item, when
\* there is one).
C7_OneItemPerAnswer ==
    pc = "done" /\ answers # <<>> =>
        LET shown == AnswerItems(feedback)
        IN  /\ Len(shown) = Len(answers)
            /\ \A i \in 1..Len(answers) :
                  /\ shown[i].title = answers[i].shortname
                  /\ shown[i].arg = "http://go/" \o answers[i].shortname
                  /\ shown[i].uid = answers[i].link
            /\ feedback = (IF run.upd THEN <<UpdateItem>> ELSE <<>>) \o shown

\* The API returned bugtracker (10 clicks) and bugzilla (2 clicks): two items,
\* bugtracker first.
C7_Witness ==
    /\ pc = "done" /\ run.apiCalls = 1 /\ ~run.upd
    /\ Len(feedback) = 2
    /\ feedback[1].title = "bugtracker" /\ feedback[1].arg = "http://go/bugtracker"
    /\ feedback[1].uid = "http://x/1"
    /\ feedback[2].title = "bugzilla" /\ feedback[2].arg = "http://go/bugzilla"
    /\ feedback[2].uid = "http://x/2"

\* a-z, 0-9, hyphen, underscore, semicolon, full stop.
SafeChars == {45, 46, 59, 95} \cup (48..57) \cup (97..122)

HexChars == (48..57) \cup (97..102)

NotHyphen(c) == c # 45

SafeNotHyphen(c) == c \in SafeChars /\ c # 45

\* C8: the key cache_key returns is "search/" followed by characters of
\* [a-z0-9-_;.] only; it ends with "-" and the 12 hexadecimal digits of the
\* hash; before that, it holds the safe characters of the folded, lowercased
\* query in their order, everything else having become "-"; and the whole key
\* holds no two consecutive "-".
C8_KeySafe ==
    pc \in {"key1", "key2"} =>
        LET n    == Len(kkey)
            part == SubSeq(kkey, 8, n)
            body == SubSeq(kkey, 8, n - 13)
        IN  /\ n >= 20
            /\ SubSeq(kkey, 1, 7) = <<115, 101, 97, 114, 99, 104, 47>>
            /\ \A i \in 1..Len(part) : part[i] \in SafeChars
            /\ kkey[n - 12] = 45
            /\ \A i \in (n - 11)..n : kkey[i] \in HexChars
            /\ \A i \in 1..(n - 1) : ~(kkey[i] = 45 /\ kkey[i + 1] = 45)
            /\ SelectSeq(body, NotHyphen)
                  = SelectSeq(lower(asciify(kq)), SafeNotHyphen)

\* The query "A -": its key is "search/a-" and the hash, the space, the hyphen
\* and the hyphen of the join being one "-".
C8_Witness ==
    /\ pc = "key1"
    /\ kq = <<65, 32, 45>>
    /\ Len(kkey) = 21
    /\ SubSeq(kkey, 8, 9) = <<97, 45>>

\* The key without the 12 digits of its hash.
KeyPrefix(k) == SubSeq(k, 1, Len(k) - 12)

\* C9: two distinct queries that differ in case or accents only get keys with
\* the same normalized prefix and different hashes, so different keys; the
\* same query gets the same key.
C9_HashOfOriginal ==
    pc = "key2" =>
        /\ lower(asciify(kq)) = lower(asciify(kq2))
        /\ KeyPrefix(kkey) = KeyPrefix(kkey2)
        /\ kq # kq2 => kkey # kkey2
        /\ kq = kq2 => kkey = kkey2

\* "Ae." and "a" + e-acute + ".": the same prefix "search/ae.-", two keys.
C9_Witness ==
    /\ pc = "key2"
    /\ kq = <<65, 101, 46>> /\ kq2 = <<97, 233, 46>>
    /\ KeyPrefix(kkey) = SearchPrefix \o <<97, 101, 46, 45>>
    /\ KeyPrefix(kkey2) = KeyPrefix(kkey)
    /\ kkey # kkey2

\* What do_search sends for the answers as: the update item when there is
\* one, an item per answer, and the warning when there is no item at all.
ExpectedFeedback(upd, as) ==
    IF upd THEN <<UpdateItem>> \o ItemsOf(as)
    ELSE IF as = <<>> THEN <<NoAnswersItem>>
    ELSE ItemsOf(as)

Blank(s) == \A i \in 1..Len(s) : s[i] \in {9, 10, 13, 32}

\* C10: a query that is empty after trimming is searched like any other: on a
\* cache miss the run issues one API call with short_name = "" and the
\* configured limit, and when it completes it shows what the API returned.
C10_EmptyQuerySearched ==
    Started /\ Blank(run.raw) =>
        /\ run.query = <<>>
        /\ ~run.had =>
              /\ run.apiCalls = 1
              /\ run.params = [short_name |-> <<>>, limit |-> MAX_RESULTS]
        /\ pc = "done" /\ run.apiCalls = 1 =>
              /\ answers = Expected(run.resp)
              /\ feedback = ExpectedFeedback(run.upd, answers)

\* The query " " on an empty cache: one API call with short_name = "", and
\* the two sites the API returned are shown.
C10_Witness ==
    /\ pc = "done"
    /\ run.raw = <<32>> /\ run.query = <<>>
    /\ ~run.had /\ run.apiCalls = 1
    /\ run.params.short_name = <<>> /\ run.params.limit = 50
    /\ Len(AnswerItems(feedback)) = 2

====
